---- MODULE Spec2Model ----
(***************************************************************************)
(* Model of sonic_plus/main.py: the SONiC+ service lifecycle manager.      *)
(* The host is the persisted registry document (REPO_PATH), the generated  *)
(* files and directories, and the container runtime's images and           *)
(* containers.  Every command (show, install, remove, addrepo) is an       *)
(* invocation of a process; install and remove are sequences of steps,     *)
(* one per filesystem or runtime call, in the order of the source.         *)
(***************************************************************************)
EXTENDS Naturals, Sequences, FiniteSets, TLC

\* Strings used both as service names and as repository references
\* (addrepo compares a reference with the registry's keys, so both are
\* drawn from the same set).
Strs == {"a", "b"}

\* Invoking processes; the sequential specification runs one of them only.
Procs == {"p1", "p2"}
SeqProcs == {"p1"}

\* Bound on the number of invocations of a run.
MaxOps == 6

\* Bound on the number of invocations of a run with concurrent installs.
MaxRaceOps == 3

\* Bound on the number of progress records of a pull stream.
MaxLines == 2

NoArg == "-"

VARIABLES
    repoExists,   \* os.path.isfile(REPO_PATH)
    repoFile,     \* the JSON document at REPO_PATH: name -> metadata
    fs,           \* the generated files and directories that exist
    images,       \* image references present in the container runtime
    containers,   \* names of the containers present in the runtime
    pc,           \* per process: "idle" or the next step of its command
    op,           \* per process: the command of its current/last invocation
    name,         \* per process: the 'name' argument
    ref,          \* per process: the 'repo' argument of addrepo
    repo,         \* per process: the dict returned by get_repo()
    pullOk,       \* per process: whether the runtime's pull itself succeeded
    result,       \* per process: outcome of the current/last invocation
    trace,        \* per process: the calls attempted by the invocation
    host0,        \* per process: the host when the invocation began
    prev,         \* per process: the invocation before the current one
    host1,        \* per process: the host when that earlier invocation began
    overlap,      \* the latest invocation began while another was running
    removeFailed, \* names whose remove failed at the container or the image,
                  \* in an invocation before the current one
    installFailed,\* names whose install failed at a write or at the container
                  \* start, in an invocation before the current one, and whose
                  \* install directory has been there since
    partial,      \* some invocation failed after changing the host
    nops          \* number of invocations begun

hostVars == <<repoExists, repoFile, fs, images, containers>>
procVars == <<pc, op, name, ref, repo, pullOk, result, trace, host0, prev>>
histVars == <<host1, overlap, removeFailed, installFailed>>
vars == <<repoExists, repoFile, fs, images, containers,
          pc, op, name, ref, repo, pullOk, result, trace, host0, prev,
          host1, overlap, removeFailed, installFailed,
          partial, nops>>

Host == [repoExists |-> repoExists, repoFile |-> repoFile, fs |-> fs,
         images |-> images, containers |-> containers]

----------------------------------------------------------------------------
(* Registry entries: python dicts with keys repo, description and,        *)
(* optionally, status.                                                     *)

EmptyDict == [x \in {} |-> x]

DictSet(d, k, v) == [x \in (DOMAIN d) \cup {k} |-> IF x = k THEN v ELSE d[x]]

\* faulty variant: the new entry is given a status field
MetadataWithStatus(r) == [repo |-> r, description |-> r, status |-> "Not installed"]

\* metadata = dict(); metadata['repo'] = repo; metadata['description'] = repo
Metadata(r) == [repo |-> r, description |-> r]

\* repo[name]['status'] = s
SetStatus(e, s) == [repo |-> e.repo, description |-> e.description, status |-> s]

HasStatus(e) == "status" \in DOMAIN e

\* the STATUS column of show
StatusOf(e) == IF HasStatus(e) THEN e.status ELSE "Not installed"

----------------------------------------------------------------------------
(* Paths of the generated artifacts of a service.                          *)

PackagePath(n) == <<"package_path", n>>
MainPy(n) == <<"main.py", n>>
MainPyc(n) == <<"main.pyc", n>>
InitPy(n) == <<"__init__.py", n>>
InitPyc(n) == <<"__init__.pyc", n>>
BinPath(n) == <<"/usr/bin", n>>
CompletionPath(n) == <<"/etc/bash_completion.d", n>>

\* files inside the install directory
PackageFiles(n) == {MainPy(n), MainPyc(n), InitPy(n), InitPyc(n)}

Artifacts(n) == {MainPy(n), InitPy(n), BinPath(n), CompletionPath(n)}

----------------------------------------------------------------------------
(* get_repo: the registry as loaded by a command.                          *)

\* faulty variant: abort_on_empty is ignored, a missing document loads as {}
GetRepoNeverAborts(abort_on_empty) ==
    IF repoExists THEN [abort |-> FALSE, repo |-> repoFile]
    ELSE [abort |-> FALSE, repo |-> EmptyDict]

\* get_repo(abort_on_empty): the loaded dict, or click.Abort
GetRepo(abort_on_empty) ==
    IF repoExists THEN [abort |-> FALSE, repo |-> repoFile]
    ELSE IF abort_on_empty THEN [abort |-> TRUE, repo |-> EmptyDict]
    ELSE [abort |-> FALSE, repo |-> EmptyDict]

\* name not in repo
NotFound(d, n) == n \notin DOMAIN d

\* faulty variant: the status is compared with a value the program never writes
AlreadyInstalledWrongValue(d, n) == HasStatus(d[n]) /\ d[n].status = "installed"

\* 'status' in repo[name] and repo[name]['status'] == "Installed"  (install)
AlreadyInstalled(d, n) == HasStatus(d[n]) /\ d[n].status = "Installed"

\* 'status' in repo[name] and repo[name]['status'] != "Installed"  (remove)
NotInstalled(d, n) == HasStatus(d[n]) /\ d[n].status # "Installed"

\* repo in repo_dict  (addrepo): membership among the KEYS of the dict
RepoInDict(r, d) == r \in DOMAIN d

\* the rows of show: name, repo, description, status
ShowLines(d) == [n \in DOMAIN d |-> <<d[n].repo, d[n].description, StatusOf(d[n])>>]

----------------------------------------------------------------------------
(* The pull stream: the records docker_api_client.pull yields, and whether *)
(* the stream ends normally or raises.                                     *)

\* kinds of decoded records:
\*   "status"     no progressDetail key
\*   "empty"      progressDetail = {}
\*   "progress"   progressDetail = {current: c, total: t}, t > 0
\*   "nototal"    progressDetail = {current: c}
\*   "zerototal"  progressDetail = {current: c, total: 0}
LineKinds == {"status", "empty", "progress", "nototal", "zerototal"}

HasProgressDetail(l) == l # "status"
HasCurrent(l) == l \in {"progress", "nototal", "zerototal"}
HasTotal(l) == l \in {"progress", "zerototal"}
TotalIsZero(l) == l = "zerototal"

\* bar.update(int(current) * 100 / int(total)) raises KeyError without a
\* total and ZeroDivisionError with a total of zero
LineRaises(l) ==
    /\ HasProgressDetail(l)
    /\ HasCurrent(l)
    /\ (~HasTotal(l) \/ TotalIsZero(l))

Streams == UNION {[1..k -> LineKinds] : k \in 0..MaxLines}

\* the body of the for loop raises on some record of the stream
LoopRaises(lines) == \E i \in 1..Len(lines) : LineRaises(lines[i])

\* the try block of the pull raises: in the loop body, or in the stream
PullRaises(lines, dockerOk) == LoopRaises(lines) \/ ~dockerOk

\* what the pulls of all streams come to: whether the try block raises, and
\* whether the runtime's pull itself succeeded
PullOutcomes ==
    {<<PullRaises(lines, dockerOk), dockerOk>> :
        lines \in Streams, dockerOk \in BOOLEAN}

----------------------------------------------------------------------------
(* Invocations.                                                            *)

NoInvocation == [op |-> "none", name |-> NoArg, result |-> "none"]

Init ==
    /\ repoExists = FALSE
    /\ repoFile = EmptyDict
    /\ fs = {}
    /\ images = {}
    /\ containers = {}
    /\ pc = [p \in Procs |-> "idle"]
    /\ op = [p \in Procs |-> "none"]
    /\ name = [p \in Procs |-> NoArg]
    /\ ref = [p \in Procs |-> NoArg]
    /\ repo = [p \in Procs |-> EmptyDict]
    /\ pullOk = [p \in Procs |-> TRUE]
    /\ result = [p \in Procs |-> "none"]
    /\ trace = [p \in Procs |-> <<>>]
    /\ host0 = [p \in Procs |->
                  [repoExists |-> FALSE, repoFile |-> EmptyDict, fs |-> {},
                   images |-> {}, containers |-> {}]]
    /\ prev = [p \in Procs |-> NoInvocation]
    /\ host1 = [p \in Procs |->
                  [repoExists |-> FALSE, repoFile |-> EmptyDict, fs |-> {},
                   images |-> {}, containers |-> {}]]
    /\ overlap = FALSE
    /\ removeFailed = {}
    /\ installFailed = {}
    /\ partial = FALSE
    /\ nops = 0

\* the invocation of p that just ended was a remove that failed at the
\* container removal or at the image removal
RemoveFailedAtRuntime(p) ==
    /\ op[p] = "remove"
    /\ result[p] \in {"ContainerRemoveFailed", "ImageRemoveFailed"}

\* the invocation of p that just ended was an install that failed at an
\* artifact write or at the container start
InstallFailedAfterMakedirs(p) ==
    /\ op[p] = "install"
    /\ \/ result[p] = "ContainerStartFailed"
       \/ \E c \in {"write main.py", "write __init__.py", "write entry point",
                     "write completion"} :
            \E i \in 1..Len(trace[p]) : trace[p][i] = <<c, "fail">>

\* a command is invoked with its arguments
Begin(p, o, n, r) ==
    /\ pc[p] = "idle"
    /\ nops < MaxOps
    /\ nops' = nops + 1
    /\ op' = [op EXCEPT ![p] = o]
    /\ name' = [name EXCEPT ![p] = n]
    /\ ref' = [ref EXCEPT ![p] = r]
    /\ pullOk' = [pullOk EXCEPT ![p] = TRUE]
    /\ host0' = [host0 EXCEPT ![p] = Host]
    /\ prev' = [prev EXCEPT ![p] =
                  [op |-> op[p], name |-> name[p], result |-> result[p]]]
    /\ host1' = [host1 EXCEPT ![p] = host0[p]]
    /\ overlap' = (\E q \in Procs \ {p} : pc[q] # "idle")
    /\ removeFailed' =
         IF RemoveFailedAtRuntime(p) THEN removeFailed \cup {name[p]}
         ELSE IF op[p] = "addrepo" /\ result[p] = "OK"
         THEN removeFailed \ {name[p]}
         ELSE removeFailed
    /\ installFailed' =
         {m \in installFailed \cup
                  (IF InstallFailedAfterMakedirs(p) THEN {name[p]} ELSE {}) :
            <<"package_path", m>> \in fs}

\* a step of a running command
Step(p, at) ==
    /\ pc[p] = at
    /\ UNCHANGED <<op, name, ref, host0, prev, nops, histVars>>

\* the command goes on with its next step
Goto(p, next) ==
    /\ pc' = [pc EXCEPT ![p] = next]
    /\ result' = [result EXCEPT ![p] = "running"]
    /\ UNCHANGED partial

\* the command ends: normally ("OK"), with click.Abort after one of its
\* messages, or with an uncaught exception ("Fatal")
End(p, res, h0) ==
    /\ pc' = [pc EXCEPT ![p] = "idle"]
    /\ result' = [result EXCEPT ![p] = res]
    /\ partial' = (partial \/ (res # "OK" /\ Host' # h0))

Called(p, call, outcome) ==
    trace' = [trace EXCEPT ![p] = Append(@, <<call, outcome>>)]

----------------------------------------------------------------------------
(* show                                                                    *)

Show(p) ==
    /\ Begin(p, "show", NoArg, NoArg)
    /\ trace' = [trace EXCEPT ![p] = <<>>]
    /\ repo' = [repo EXCEPT ![p] = GetRepo(TRUE).repo]
    /\ UNCHANGED hostVars
    /\ IF GetRepo(TRUE).abort
       THEN End(p, "RegistryEmpty", Host)
       ELSE End(p, "OK", Host)

----------------------------------------------------------------------------
(* addrepo                                                                 *)

AddRepo(p, n, r) ==
    /\ Begin(p, "addrepo", n, r)
    /\ LET repo_dict == GetRepo(FALSE).repo IN
       IF RepoInDict(r, repo_dict)
       THEN /\ repo' = [repo EXCEPT ![p] = repo_dict]
            /\ trace' = [trace EXCEPT ![p] = <<>>]
            /\ UNCHANGED hostVars
            /\ End(p, "RepositoryExists", Host)
       ELSE /\ repo' = [repo EXCEPT ![p] = DictSet(repo_dict, n, Metadata(r))]
            /\ trace' = [trace EXCEPT ![p] = <<<<"save", "ok">>>>]
            /\ repoExists' = TRUE
            /\ repoFile' = DictSet(repo_dict, n, Metadata(r))
            /\ UNCHANGED <<fs, images, containers>>
            /\ End(p, "OK", Host)

----------------------------------------------------------------------------
(* install                                                                 *)

\* faulty variant: the check of the name against the registry is missing
InstallBeginNoNameCheck(p, n) ==
    /\ Begin(p, "install", n, NoArg)
    /\ trace' = [trace EXCEPT ![p] = <<>>]
    /\ repo' = [repo EXCEPT ![p] = GetRepo(TRUE).repo]
    /\ UNCHANGED hostVars
    /\ IF GetRepo(TRUE).abort
       THEN End(p, "RegistryEmpty", Host)
       ELSE IF ~NotFound(GetRepo(TRUE).repo, n)
               /\ AlreadyInstalled(GetRepo(TRUE).repo, n)
       THEN End(p, "AlreadyInstalled", Host)
       ELSE Goto(p, "pull")

\* get_repo() and the two precondition checks
InstallBegin(p, n) ==
    /\ Begin(p, "install", n, NoArg)
    /\ trace' = [trace EXCEPT ![p] = <<>>]
    /\ repo' = [repo EXCEPT ![p] = GetRepo(TRUE).repo]
    /\ UNCHANGED hostVars
    /\ IF GetRepo(TRUE).abort
       THEN End(p, "RegistryEmpty", Host)
       ELSE IF NotFound(GetRepo(TRUE).repo, n)
       THEN End(p, "ServiceNotFound", Host)
       ELSE IF AlreadyInstalled(GetRepo(TRUE).repo, n)
       THEN End(p, "AlreadyInstalled", Host)
       ELSE Goto(p, "pull")

\* faulty variant: the except clause of the pull swallows the exception
InstallPullSwallowed(p) ==
    /\ Step(p, "pull")
    /\ UNCHANGED <<repo, repoExists, repoFile, fs, containers>>
    /\ \E pull \in PullOutcomes :
       LET raises == pull[1]
           dockerOk == pull[2] IN
         /\ pullOk' = [pullOk EXCEPT ![p] = dockerOk]
         /\ IF raises
            THEN /\ Called(p, "pull", "fail")
                 /\ images' = images
                 /\ Goto(p, "schema")
            ELSE /\ Called(p, "pull", "ok")
                 /\ images' = images \cup {repo[p][name[p]].repo}
                 /\ Goto(p, "schema")

\* docker_api_client.pull(repo[name]['repo'], ...) with the progress bar.
\* When the loop body raises on a record the stream is abandoned, and the
\* runtime may or may not have the image by then.
InstallPull(p) ==
    /\ Step(p, "pull")
    /\ UNCHANGED <<repo, repoExists, repoFile, fs, containers>>
    /\ \E pull \in PullOutcomes :
       LET raises == pull[1]
           dockerOk == pull[2] IN
         /\ pullOk' = [pullOk EXCEPT ![p] = dockerOk]
         /\ IF raises
            THEN /\ Called(p, "pull", "fail")
                 /\ IF dockerOk
                    THEN images' \in {images, images \cup {repo[p][name[p]].repo}}
                    ELSE images' = images
                 /\ End(p, "ImagePullFailed", host0[p])
            ELSE /\ Called(p, "pull", "ok")
                 /\ images' = images \cup {repo[p][name[p]].repo}
                 /\ Goto(p, "schema")

\* faulty variant: output that does not parse is passed on as the schema
InstallSchemaUnparsed(p) ==
    /\ Step(p, "schema")
    /\ UNCHANGED <<repo, pullOk, hostVars>>
    /\ \E out \in {"run fails", "malformed", "schema"} :
         IF out = "run fails"
         THEN /\ Called(p, "run schema", "fail")
              /\ End(p, "SchemaUnavailable", host0[p])
         ELSE IF out = "malformed"
         THEN /\ trace' = [trace EXCEPT ![p] =
                             @ \o <<<<"run schema", "ok">>, <<"json.loads", "fail">>>>]
              /\ Goto(p, "makedirs")
         ELSE /\ trace' = [trace EXCEPT ![p] =
                             @ \o <<<<"run schema", "ok">>, <<"json.loads", "ok">>>>]
              /\ Goto(p, "makedirs")

\* the throwaway container printing SCHEMA_PATH, and json.loads(output)
InstallSchema(p) ==
    /\ Step(p, "schema")
    /\ UNCHANGED <<repo, pullOk, hostVars>>
    /\ \E out \in {"run fails", "malformed", "schema"} :
         IF out = "run fails"
         THEN /\ Called(p, "run schema", "fail")
              /\ End(p, "SchemaUnavailable", host0[p])
         ELSE IF out = "malformed"
         THEN /\ trace' = [trace EXCEPT ![p] =
                             @ \o <<<<"run schema", "ok">>, <<"json.loads", "fail">>>>]
              /\ End(p, "Fatal", host0[p])
         ELSE /\ trace' = [trace EXCEPT ![p] =
                             @ \o <<<<"run schema", "ok">>, <<"json.loads", "ok">>>>]
              /\ Goto(p, "makedirs")

\* faulty variant: an existing install directory is tolerated
InstallMakedirsExistOk(p) ==
    /\ Step(p, "makedirs")
    /\ UNCHANGED <<repo, pullOk, repoExists, repoFile, images, containers>>
    /\ Called(p, "makedirs", "ok")
    /\ fs' = fs \cup {PackagePath(name[p])}
    /\ Goto(p, "write main.py")

\* os.makedirs(package_path)
InstallMakedirs(p) ==
    /\ Step(p, "makedirs")
    /\ UNCHANGED <<repo, pullOk, repoExists, repoFile, images, containers>>
    /\ IF PackagePath(name[p]) \in fs
       THEN /\ Called(p, "makedirs", "fail")
            /\ fs' = fs
            /\ End(p, "Fatal", host0[p])
       ELSE /\ Called(p, "makedirs", "ok")
            /\ fs' = fs \cup {PackagePath(name[p])}
            /\ Goto(p, "write main.py")

\* read and render a template, open(path, 'w') and write: a failure of any
\* of them is an uncaught exception
WriteArtifact(p, at, path, needsDir, next) ==
    /\ Step(p, at)
    /\ UNCHANGED <<repo, pullOk, repoExists, repoFile, images, containers>>
    /\ \E ok \in BOOLEAN :
         IF ok /\ (needsDir => PackagePath(name[p]) \in fs)
         THEN /\ Called(p, at, "ok")
              /\ fs' = fs \cup {path}
              /\ Goto(p, next)
         ELSE /\ Called(p, at, "fail")
              /\ fs' = fs
              /\ End(p, "Fatal", host0[p])

InstallWriteMain(p) ==
    WriteArtifact(p, "write main.py", MainPy(name[p]), TRUE, "write __init__.py")

InstallWriteInit(p) ==
    WriteArtifact(p, "write __init__.py", InitPy(name[p]), TRUE, "write entry point")

InstallWriteEntryPoint(p) ==
    WriteArtifact(p, "write entry point", BinPath(name[p]), FALSE, "write completion")

InstallWriteCompletion(p) ==
    WriteArtifact(p, "write completion", CompletionPath(name[p]), FALSE, "run")

\* faulty variant: the except clause of the container start swallows the exception
InstallRunSwallowed(p) ==
    /\ Step(p, "run")
    /\ UNCHANGED <<repo, pullOk, repoExists, repoFile, fs, images>>
    /\ \E ok \in BOOLEAN :
         IF ok /\ name[p] \notin containers
         THEN /\ Called(p, "run", "ok")
              /\ containers' = containers \cup {name[p]}
              /\ Goto(p, "save")
         ELSE /\ Called(p, "run", "fail")
              /\ containers' = containers
              /\ Goto(p, "save")

\* docker_client.containers.run(..., detach = True, name = name): fails when
\* the runtime refuses, as it does when the name is taken
InstallRun(p) ==
    /\ Step(p, "run")
    /\ UNCHANGED <<repo, pullOk, repoExists, repoFile, fs, images>>
    /\ \E ok \in BOOLEAN :
         IF ok /\ name[p] \notin containers
         THEN /\ Called(p, "run", "ok")
              /\ containers' = containers \cup {name[p]}
              /\ Goto(p, "save")
         ELSE /\ Called(p, "run", "fail")
              /\ containers' = containers
              /\ End(p, "ContainerStartFailed", host0[p])

\* repo[name]['status'] = "Installed"; json.dump(repo, repo_file)
InstallSave(p) ==
    /\ Step(p, "save")
    /\ UNCHANGED <<pullOk, fs, images, containers>>
    /\ repo' = [repo EXCEPT ![p] =
                  DictSet(@, name[p], SetStatus(@[name[p]], "Installed"))]
    /\ repoExists' = TRUE
    /\ repoFile' = repo'[p]
    /\ Called(p, "save", "ok")
    /\ End(p, "OK", host0[p])

----------------------------------------------------------------------------
(* remove                                                                  *)

\* get_repo() and the two precondition checks
RemoveBegin(p, n) ==
    /\ Begin(p, "remove", n, NoArg)
    /\ trace' = [trace EXCEPT ![p] = <<>>]
    /\ repo' = [repo EXCEPT ![p] = GetRepo(TRUE).repo]
    /\ UNCHANGED hostVars
    /\ IF GetRepo(TRUE).abort
       THEN End(p, "RegistryEmpty", Host)
       ELSE IF NotFound(GetRepo(TRUE).repo, n)
       THEN End(p, "ServiceNotFound", Host)
       ELSE IF NotInstalled(GetRepo(TRUE).repo, n)
       THEN End(p, "NotInstalled", Host)
       ELSE Goto(p, "remove main.py")

\* os.remove(path), and os.remove of the compiled siblings that exist
RemoveFile(p, at, path, siblings, next) ==
    /\ Step(p, at)
    /\ UNCHANGED <<repo, pullOk, repoExists, repoFile, images, containers>>
    /\ IF path \in fs
       THEN /\ Called(p, at, "ok")
            /\ fs' = (fs \ {path}) \ siblings
            /\ Goto(p, next)
       ELSE /\ Called(p, at, "fail")
            /\ fs' = fs
            /\ End(p, "Fatal", host0[p])

RemoveMain(p) ==
    RemoveFile(p, "remove main.py", MainPy(name[p]), {MainPyc(name[p])},
               "remove __init__.py")

RemoveInit(p) ==
    RemoveFile(p, "remove __init__.py", InitPy(name[p]), {InitPyc(name[p])},
               "remove entry point")

\* faulty variant: the completion script is deleted next, the directory is
\* left in place
RemoveEntryPointSkipsRmdir(p) ==
    RemoveFile(p, "remove entry point", BinPath(name[p]), {}, "remove completion")

RemoveEntryPoint(p) ==
    RemoveFile(p, "remove entry point", BinPath(name[p]), {}, "rmdir")

\* os.rmdir(package_path): the directory must exist and be empty
RemoveRmdir(p) ==
    /\ Step(p, "rmdir")
    /\ UNCHANGED <<repo, pullOk, repoExists, repoFile, images, containers>>
    /\ IF PackagePath(name[p]) \in fs /\ PackageFiles(name[p]) \cap fs = {}
       THEN /\ Called(p, "rmdir", "ok")
            /\ fs' = fs \ {PackagePath(name[p])}
            /\ Goto(p, "remove completion")
       ELSE /\ Called(p, "rmdir", "fail")
            /\ fs' = fs
            /\ End(p, "Fatal", host0[p])

RemoveCompletion(p) ==
    RemoveFile(p, "remove completion", CompletionPath(name[p]), {},
               "remove container")

\* docker_client.containers.get(name).remove(force = True)
RemoveContainer(p) ==
    /\ Step(p, "remove container")
    /\ UNCHANGED <<repo, pullOk, repoExists, repoFile, fs, images>>
    /\ \E ok \in BOOLEAN :
         IF ok /\ name[p] \in containers
         THEN /\ Called(p, "remove container", "ok")
              /\ containers' = containers \ {name[p]}
              /\ Goto(p, "remove image")
         ELSE /\ Called(p, "remove container", "fail")
              /\ containers' = containers
              /\ End(p, "ContainerRemoveFailed", host0[p])

\* faulty variant: the except clause of the image removal swallows the exception
RemoveImageSwallowed(p) ==
    /\ Step(p, "remove image")
    /\ UNCHANGED <<repo, pullOk, repoExists, repoFile, fs, containers>>
    /\ \E ok \in BOOLEAN :
         IF ok /\ repo[p][name[p]].repo \in images
         THEN /\ Called(p, "remove image", "ok")
              /\ images' = images \ {repo[p][name[p]].repo}
              /\ Goto(p, "remove save")
         ELSE /\ Called(p, "remove image", "fail")
              /\ images' = images
              /\ Goto(p, "remove save")

\* docker_client.images.remove(repo[name]['repo'])
RemoveImage(p) ==
    /\ Step(p, "remove image")
    /\ UNCHANGED <<repo, pullOk, repoExists, repoFile, fs, containers>>
    /\ \E ok \in BOOLEAN :
         IF ok /\ repo[p][name[p]].repo \in images
         THEN /\ Called(p, "remove image", "ok")
              /\ images' = images \ {repo[p][name[p]].repo}
              /\ Goto(p, "remove save")
         ELSE /\ Called(p, "remove image", "fail")
              /\ images' = images
              /\ End(p, "ImageRemoveFailed", host0[p])

\* faulty variant: the registry is saved without the status being reset
RemoveSaveKeepsStatus(p) ==
    /\ Step(p, "remove save")
    /\ UNCHANGED <<pullOk, fs, images, containers>>
    /\ repo' = repo
    /\ repoExists' = TRUE
    /\ repoFile' = repo[p]
    /\ Called(p, "save", "ok")
    /\ End(p, "OK", host0[p])

\* repo[name]['status'] = "Not installed"; json.dump(repo, repo_file)
RemoveSave(p) ==
    /\ Step(p, "remove save")
    /\ UNCHANGED <<pullOk, fs, images, containers>>
    /\ repo' = [repo EXCEPT ![p] =
                  DictSet(@, name[p], SetStatus(@[name[p]], "Not installed"))]
    /\ repoExists' = TRUE
    /\ repoFile' = repo'[p]
    /\ Called(p, "save", "ok")
    /\ End(p, "OK", host0[p])

----------------------------------------------------------------------------
(* The generated entry point is run: python imports the generated package  *)
(* and leaves the compiled siblings main.pyc and __init__.pyc, which       *)
(* remove deletes when they exist.                                         *)

RunCli(p, n) ==
    /\ Begin(p, "cli", n, NoArg)
    /\ {PackagePath(n), MainPy(n), InitPy(n), BinPath(n)} \subseteq fs
    /\ trace' = [trace EXCEPT ![p] = <<>>]
    /\ fs' = fs \cup {MainPyc(n), InitPyc(n)}
    /\ UNCHANGED <<repo, repoExists, repoFile, images, containers>>
    /\ End(p, "OK", Host)

----------------------------------------------------------------------------
(* Specifications.                                                         *)

Command(p) ==
    \/ Show(p)
    \/ \E n \in Strs, r \in Strs : AddRepo(p, n, r)
    \/ \E n \in Strs : InstallBegin(p, n)
    \/ InstallPull(p)
    \/ InstallSchema(p)
    \/ InstallMakedirs(p)
    \/ InstallWriteMain(p)
    \/ InstallWriteInit(p)
    \/ InstallWriteEntryPoint(p)
    \/ InstallWriteCompletion(p)
    \/ InstallRun(p)
    \/ InstallSave(p)
    \/ \E n \in Strs : RemoveBegin(p, n)
    \/ RemoveMain(p)
    \/ RemoveInit(p)
    \/ RemoveEntryPoint(p)
    \/ RemoveRmdir(p)
    \/ RemoveCompletion(p)
    \/ RemoveContainer(p)
    \/ RemoveImage(p)
    \/ RemoveSave(p)
    \/ \E n \in Strs : RunCli(p, n)

\* commands are invoked one after the other
Next == \E p \in SeqProcs : Command(p)

Spec == Init /\ [][Next]_vars

\* Nothing synchronizes two invocations: the steps of two commands may
\* interleave.  This specification runs the addrepo and install invocations
\* of two processes concurrently.
RaceCommand(p) ==
    \/ \E n \in Strs, r \in Strs : AddRepo(p, n, r)
    \/ \E n \in Strs : InstallBegin(p, n)
    \/ InstallPull(p)
    \/ InstallSchema(p)
    \/ InstallMakedirs(p)
    \/ InstallWriteMain(p)
    \/ InstallWriteInit(p)
    \/ InstallWriteEntryPoint(p)
    \/ InstallWriteCompletion(p)
    \/ InstallRun(p)
    \/ InstallSave(p)

NextRace == \E p \in Procs : RaceCommand(p) /\ nops' <= MaxRaceOps

SpecRace == Init /\ [][NextRace]_vars

----------------------------------------------------------------------------
(* Vocabulary of the properties.                                           *)

\* the calls the current/last invocation of p attempted, with their outcome
Calls(p) == {trace[p][i] : i \in 1..Len(trace[p])}

Attempted(p, call) == <<call, "ok">> \in Calls(p) \/ <<call, "fail">> \in Calls(p)

Ended(p, o) == pc[p] = "idle" /\ op[p] = o

\* the entry of n in the registry document f reads Installed
Installed(f, n) == n \in DOMAIN f /\ StatusOf(f[n]) = "Installed"

\* n is registered in f and reads not installed (value or absent field)
RegisteredNotInstalled(f, n) == n \in DOMAIN f /\ StatusOf(f[n]) # "Installed"

RegistryUnchanged(p) ==
    /\ repoExists = host0[p].repoExists
    /\ repoFile = host0[p].repoFile

HostUnchanged(p) == Host = host0[p]

InstallCalls == {"pull", "run schema", "json.loads", "makedirs", "write main.py",
                 "write __init__.py", "write entry point", "write completion",
                 "run"}

RemoveCalls == {"remove main.py", "remove __init__.py", "remove entry point",
                "rmdir", "remove completion", "remove container", "remove image"}

AllOk(t, calls) == \A c \in calls : \E i \in 1..Len(t) : t[i] = <<c, "ok">>

----------------------------------------------------------------------------
(* C1 *)

\* C1: remove of a registered service that is not installed (status
\* "Not installed" or absent) ends with the NotInstalled error, leaves the
\* whole host as it was and attempts no container or image removal.
C1_RemoveNotInstalledRejected ==
    \A p \in Procs :
        (/\ op[p] = "remove"
         /\ host0[p].repoExists
         /\ RegisteredNotInstalled(host0[p].repoFile, name[p]))
        => /\ pc[p] = "idle"
           /\ result[p] = "NotInstalled"
           /\ HostUnchanged(p)
           /\ ~Attempted(p, "remove container")
           /\ ~Attempted(p, "remove image")

----------------------------------------------------------------------------
(* C2 *)

RefRegistered(f, r) == \E m \in DOMAIN f : f[m].repo = r

\* C2: addrepo(name, ref) ends with RepositoryExists exactly when ref is the
\* repo value of some entry, a rejected addrepo leaves the registry as it
\* was, and no two entries of the registry hold the same ref.
C2_AddRepoDedupOnRef ==
    /\ \A p \in Procs :
         Ended(p, "addrepo") =>
           /\ (result[p] = "RepositoryExists")
                <=> RefRegistered(host0[p].repoFile, ref[p])
           /\ result[p] = "RepositoryExists" => RegistryUnchanged(p)
    /\ \A m1, m2 \in DOMAIN repoFile :
         repoFile[m1].repo = repoFile[m2].repo => m1 = m2

----------------------------------------------------------------------------
(* C3 *)

\* C3: in every step, an entry's persisted status becomes Installed only by
\* an install of it whose side effects all succeeded, and an Installed entry
\* reads not installed again only by a remove of it whose side effects all
\* succeeded.
C3_StatusFollowsSideEffects ==
    [][\A n \in Strs :
         /\ (~Installed(repoFile, n) /\ Installed(repoFile', n))
              => \E p \in Procs : /\ op'[p] = "install" /\ name'[p] = n
                                  /\ AllOk(trace'[p], InstallCalls)
                                  /\ {PackagePath(n)} \cup Artifacts(n) \subseteq fs'
                                  /\ n \in containers'
         /\ (Installed(repoFile, n) /\ ~Installed(repoFile', n))
              => \E p \in Procs : /\ op'[p] = "remove" /\ name'[p] = n
                                  /\ AllOk(trace'[p], RemoveCalls)
       ]_vars

----------------------------------------------------------------------------
(* C4 *)

\* C4: an install(s) that immediately follows a successful install(s) ends
\* with AlreadyInstalled, having attempted no call and changed nothing of
\* the host, the registry included.
C4_SecondInstallRejected ==
    \A p \in Procs :
        (/\ op[p] = "install"
         /\ prev[p] = [op |-> "install", name |-> name[p], result |-> "OK"])
        => /\ pc[p] = "idle"
           /\ result[p] = "AlreadyInstalled"
           /\ trace[p] = <<>>
           /\ HostUnchanged(p)

C4_Witness ==
    \E p \in Procs :
        /\ Ended(p, "install")
        /\ prev[p] = [op |-> "install", name |-> name[p], result |-> "OK"]
        /\ result[p] = "AlreadyInstalled"
        /\ Installed(repoFile, name[p])

----------------------------------------------------------------------------
(* C5 *)

\* C5: install of a name that is not a key of a non-empty registry ends
\* with ServiceNotFound, having attempted no call and changed nothing of
\* the host, the registry included.
C5_InstallUnknownRejected ==
    \A p \in Procs :
        (/\ op[p] = "install"
         /\ host0[p].repoExists
         /\ DOMAIN host0[p].repoFile # {}
         /\ name[p] \notin DOMAIN host0[p].repoFile)
        => /\ pc[p] = "idle"
           /\ result[p] = "ServiceNotFound"
           /\ trace[p] = <<>>
           /\ HostUnchanged(p)

C5_Witness ==
    \E p \in Procs :
        /\ Ended(p, "install")
        /\ host0[p].repoExists
        /\ DOMAIN host0[p].repoFile # {}
        /\ name[p] \notin DOMAIN host0[p].repoFile
        /\ result[p] = "ServiceNotFound"

----------------------------------------------------------------------------
(* C6 *)

SchemaExtractionFailed(p) ==
    <<"run schema", "fail">> \in Calls(p) \/ <<"json.loads", "fail">> \in Calls(p)

\* C6: an install whose schema extraction fails (the throwaway run fails,
\* or its output does not parse) ends with SchemaUnavailable; the entry
\* still reads not installed, no file or directory was created, no
\* container was started and the pulled image is present.
C6_SchemaFailureIsSchemaUnavailable ==
    \A p \in Procs :
        (op[p] = "install" /\ SchemaExtractionFailed(p))
        => /\ pc[p] = "idle"
           /\ result[p] = "SchemaUnavailable"
           /\ RegistryUnchanged(p)
           /\ ~Installed(repoFile, name[p])
           /\ fs = host0[p].fs
           /\ containers = host0[p].containers
           /\ repo[p][name[p]].repo \in images

----------------------------------------------------------------------------
(* C7 *)

\* C7: an install whose image pull fails ends with ImagePullFailed; nothing
\* after the pull was attempted, and the registry, the files and the
\* containers are as they were.
C7_PullFailureMutatesNothing ==
    \A p \in Procs :
        (op[p] = "install" /\ <<"pull", "fail">> \in Calls(p))
        => /\ pc[p] = "idle"
           /\ result[p] = "ImagePullFailed"
           /\ trace[p] = <<<<"pull", "fail">>>>
           /\ RegistryUnchanged(p)
           /\ fs = host0[p].fs
           /\ containers = host0[p].containers

C7_Witness ==
    \E p \in Procs :
        /\ Ended(p, "install")
        /\ <<"pull", "fail">> \in Calls(p)
        /\ result[p] = "ImagePullFailed"
        /\ ~pullOk[p]

----------------------------------------------------------------------------
(* C8 *)

\* C8: an install whose service container fails to start ends with
\* ContainerStartFailed; the registry was not saved, the entry does not
\* read Installed, and the install directory, CLI program, package marker,
\* entry point and completion script are on disk.
C8_StartFailureLeavesArtifacts ==
    \A p \in Procs :
        (op[p] = "install" /\ <<"run", "fail">> \in Calls(p))
        => /\ pc[p] = "idle"
           /\ result[p] = "ContainerStartFailed"
           /\ ~Attempted(p, "save")
           /\ RegistryUnchanged(p)
           /\ ~Installed(repoFile, name[p])
           /\ {PackagePath(name[p])} \cup Artifacts(name[p]) \subseteq fs

C8_Witness ==
    \E p \in Procs :
        /\ Ended(p, "install")
        /\ <<"run", "fail">> \in Calls(p)
        /\ result[p] = "ContainerStartFailed"
        /\ {PackagePath(name[p])} \cup Artifacts(name[p]) \subseteq fs
        /\ fs # host0[p].fs

----------------------------------------------------------------------------
(* C9 *)

\* C9: a remove whose container removal fails ends with
\* ContainerRemoveFailed, without attempting the image removal or saving
\* the registry, the artifacts being deleted; a remove whose image removal
\* fails ends with ImageRemoveFailed without saving the registry, the
\* container being removed.  In both cases the persisted status of the
\* entry is Installed.
C9_RemoveRuntimeFailures ==
    \A p \in Procs :
        /\ (op[p] = "remove" /\ <<"remove container", "fail">> \in Calls(p))
           => /\ pc[p] = "idle"
              /\ result[p] = "ContainerRemoveFailed"
              /\ ~Attempted(p, "remove image")
              /\ ~Attempted(p, "save")
              /\ RegistryUnchanged(p)
              /\ ({PackagePath(name[p])} \cup Artifacts(name[p])) \cap fs = {}
              /\ Installed(repoFile, name[p])
        /\ (op[p] = "remove" /\ <<"remove image", "fail">> \in Calls(p))
           => /\ pc[p] = "idle"
              /\ result[p] = "ImageRemoveFailed"
              /\ ~Attempted(p, "save")
              /\ RegistryUnchanged(p)
              /\ name[p] \notin containers
              /\ Installed(repoFile, name[p])

----------------------------------------------------------------------------
(* C10 *)

AllIdle == \A p \in Procs : pc[p] = "idle"

\* C10: between invocations of a run in which no invocation failed after
\* changing the host, every entry that reads Installed has its install
\* directory, its four generated artifacts and a container of its name.
C10_InstalledHasArtifacts ==
    (AllIdle /\ ~partial)
    => \A n \in DOMAIN repoFile :
         Installed(repoFile, n)
         => /\ PackagePath(n) \in fs
            /\ Artifacts(n) \subseteq fs
            /\ n \in containers

C10_Witness ==
    /\ AllIdle
    /\ ~partial
    /\ \E n \in DOMAIN repoFile, m \in DOMAIN repoFile :
         /\ Installed(repoFile, n)
         /\ RegisteredNotInstalled(repoFile, m)
         /\ HasStatus(repoFile[m])
         /\ Artifacts(n) \subseteq fs
         /\ n \in containers

----------------------------------------------------------------------------
(* C11 *)

\* everything remove deletes for n: the install directory and its files,
\* the entry point and the completion script
Generated(n) == {PackagePath(n)} \cup PackageFiles(n) \cup Artifacts(n)

\* C11: a remove of an Installed service that ends normally leaves none of
\* its generated artifacts and no install directory, no container of its
\* name and no image of its repo, and the registry is the one it found with
\* the status of that entry set to "Not installed".
C11_RemoveSucceeds ==
    \A p \in Procs :
        (/\ Ended(p, "remove")
         /\ result[p] = "OK"
         /\ Installed(host0[p].repoFile, name[p]))
        => /\ Generated(name[p]) \cap fs = {}
           /\ fs = host0[p].fs \ Generated(name[p])
           /\ name[p] \notin containers
           /\ host0[p].repoFile[name[p]].repo \notin images
           /\ repoExists
           /\ DOMAIN repoFile = DOMAIN host0[p].repoFile
           /\ HasStatus(repoFile[name[p]])
           /\ repoFile[name[p]].status = "Not installed"
           /\ repoFile[name[p]].repo = host0[p].repoFile[name[p]].repo
           /\ repoFile[name[p]].description = host0[p].repoFile[name[p]].description
           /\ \A m \in DOMAIN repoFile :
                m # name[p] => repoFile[m] = host0[p].repoFile[m]

C11_Witness ==
    \E p \in Procs :
        /\ Ended(p, "remove")
        /\ result[p] = "OK"
        /\ Installed(host0[p].repoFile, name[p])
        /\ MainPyc(name[p]) \in host0[p].fs
        /\ \E m \in DOMAIN repoFile : m # name[p] /\ Installed(repoFile, m)

----------------------------------------------------------------------------
(* C12 *)

\* C12: without a registry document, show, install and remove end with
\* RegistryEmpty, having attempted no call and changed nothing; addrepo
\* ends normally and the document then exists, holding the new entry only.
C12_MissingRegistry ==
    \A p \in Procs :
        /\ (op[p] \in {"show", "install", "remove"} /\ ~host0[p].repoExists)
           => /\ pc[p] = "idle"
              /\ result[p] = "RegistryEmpty"
              /\ trace[p] = <<>>
              /\ HostUnchanged(p)
        /\ (op[p] = "addrepo" /\ ~host0[p].repoExists)
           => /\ pc[p] = "idle"
              /\ result[p] = "OK"
              /\ repoExists
              /\ DOMAIN repoFile = {name[p]}
              /\ repoFile[name[p]].repo = ref[p]

C12_Witness ==
    \E p \in Procs :
        /\ Ended(p, "remove")
        /\ ~host0[p].repoExists
        /\ result[p] = "RegistryEmpty"
        /\ prev[p].op = "install"
        /\ prev[p].result = "RegistryEmpty"

----------------------------------------------------------------------------
(* C13 *)

\* C13: an addrepo(name, ref) that passes its check leaves the registry it
\* found with the entry of name set to {repo: ref, description: ref}, without
\* a status field, every other entry as it was, the document written, and
\* files, images and containers untouched.
C13_AddRepoEffect ==
    \A p \in Procs :
        (Ended(p, "addrepo") /\ result[p] # "RepositoryExists")
        => /\ result[p] = "OK"
           /\ repoExists
           /\ DOMAIN repoFile = DOMAIN host0[p].repoFile \cup {name[p]}
           /\ DOMAIN repoFile[name[p]] = {"repo", "description"}
           /\ repoFile[name[p]].repo = ref[p]
           /\ repoFile[name[p]].description = ref[p]
           /\ StatusOf(repoFile[name[p]]) = "Not installed"
           /\ \A m \in DOMAIN host0[p].repoFile :
                m # name[p] => repoFile[m] = host0[p].repoFile[m]
           /\ fs = host0[p].fs
           /\ images = host0[p].images
           /\ containers = host0[p].containers
           /\ trace[p] = <<<<"save", "ok">>>>

C13_Witness ==
    \E p \in Procs :
        /\ Ended(p, "addrepo")
        /\ result[p] = "OK"
        /\ \E m \in DOMAIN host0[p].repoFile :
             m # name[p] /\ Installed(host0[p].repoFile, m)
        /\ ref[p] \notin images

----------------------------------------------------------------------------
(* C14 *)

InstallOrder == <<"pull", "run schema", "json.loads", "makedirs", "write main.py",
                  "write __init__.py", "write entry point", "write completion",
                  "run", "save">>

\* what a successful call of install leaves on the host
EffectHolds(p, call) ==
    CASE call = "pull" -> repo[p][name[p]].repo \in images
      [] call = "makedirs" -> PackagePath(name[p]) \in fs
      [] call = "write main.py" -> MainPy(name[p]) \in fs
      [] call = "write __init__.py" -> InitPy(name[p]) \in fs
      [] call = "write entry point" -> BinPath(name[p]) \in fs
      [] call = "write completion" -> CompletionPath(name[p]) \in fs
      [] call = "run" -> name[p] \in containers
      [] call = "save" -> Installed(repoFile, name[p])
      [] OTHER -> TRUE

\* C14: the calls of an install are a prefix of pull, schema run and parse,
\* makedirs, the four writes, container start, save; every call but the
\* last one succeeded; a failed call ends the invocation in failure; and
\* what the successful calls did is still on the host.
C14_InstallOrder ==
    \A p \in Procs :
        op[p] = "install"
        => /\ Len(trace[p]) <= Len(InstallOrder)
           /\ \A i \in 1..Len(trace[p]) :
                /\ trace[p][i][1] = InstallOrder[i]
                /\ i < Len(trace[p]) => trace[p][i][2] = "ok"
                /\ trace[p][i][2] = "fail"
                     => pc[p] = "idle" /\ result[p] \notin {"OK", "running"}
                /\ trace[p][i][2] = "ok" => EffectHolds(p, InstallOrder[i])
           /\ result[p] = "OK" => Len(trace[p]) = Len(InstallOrder)

C14_Witness ==
    \E p \in Procs :
        /\ Ended(p, "install")
        /\ Len(trace[p]) = 7
        /\ trace[p][7] = <<"write entry point", "fail">>
        /\ {PackagePath(name[p]), MainPy(name[p]), InitPy(name[p])} \subseteq fs
        /\ repo[p][name[p]].repo \in images

----------------------------------------------------------------------------
(* C15 *)

\* the current/last invocations of p and q are installs of the same name,
\* registered and not installed when each began, that ran concurrently
RacingInstalls(p, q) ==
    /\ p # q
    /\ overlap
    /\ op[p] = "install" /\ op[q] = "install"
    /\ name[p] = name[q]
    /\ RegisteredNotInstalled(host0[p].repoFile, name[p])
    /\ RegisteredNotInstalled(host0[q].repoFile, name[q])

AfterMakedirs == {"write main.py", "write __init__.py", "write entry point",
                  "write completion", "run", "save"}

\* C15: of two concurrent installs of the same not-installed name, at most
\* one creates the install directory; one whose directory creation fails
\* ends with an uncaught exception, having attempted no write, no container
\* start and no save; and at most one saves the status Installed.
C15_ConcurrentInstalls ==
    \A p \in Procs, q \in Procs :
        RacingInstalls(p, q)
        => /\ ~(<<"makedirs", "ok">> \in Calls(p) /\ <<"makedirs", "ok">> \in Calls(q))
           /\ <<"makedirs", "fail">> \in Calls(q)
                => /\ pc[q] = "idle"
                   /\ result[q] = "Fatal"
                   /\ \A c \in AfterMakedirs : ~Attempted(q, c)
           /\ ~(<<"save", "ok">> \in Calls(p) /\ <<"save", "ok">> \in Calls(q))

\* both passed the status check, one installed the service, the other
\* failed at the directory creation
C15_Witness ==
    \E p \in Procs, q \in Procs :
        /\ RacingInstalls(p, q)
        /\ <<"pull", "ok">> \in Calls(p) /\ <<"pull", "ok">> \in Calls(q)
        /\ result[p] = "OK"
        /\ Installed(repoFile, name[p])
        /\ ~PackagePath(name[p]) \in host0[q].fs
        /\ <<"makedirs", "fail">> \in Calls(q)
        /\ result[q] = "Fatal"

----------------------------------------------------------------------------
(* C16 *)

RemoveDeletions == {"remove main.py", "remove __init__.py",
                    "remove entry point", "remove completion"}

\* C16: a remove that fails at one of its four unconditional deletions ends
\* with an uncaught exception, having attempted neither the container
\* removal, nor the image removal, nor the save; and once a remove of a name
\* has failed at the container or at the image removal, every later remove
\* of that name fails at its first deletion, every later install of it ends
\* with AlreadyInstalled, and the entry goes on reading Installed.
C16_FailedRemoveIsFinal ==
    \A p \in Procs :
        /\ (op[p] = "remove" /\ \E c \in RemoveDeletions : <<c, "fail">> \in Calls(p))
           => /\ pc[p] = "idle"
              /\ result[p] = "Fatal"
              /\ \A c \in {"remove container", "remove image", "save"} :
                    ~Attempted(p, c)
        /\ (op[p] = "remove" /\ name[p] \in removeFailed)
           => /\ Calls(p) \subseteq {<<"remove main.py", "fail">>}
              /\ pc[p] = "idle" => result[p] = "Fatal"
              /\ Installed(repoFile, name[p])
        /\ (op[p] = "install" /\ name[p] \in removeFailed)
           => /\ pc[p] = "idle"
              /\ result[p] = "AlreadyInstalled"
              /\ Installed(repoFile, name[p])

----------------------------------------------------------------------------
(* C17 *)

\* C17: an install whose directory creation fails ends with an uncaught
\* exception, having attempted no write, no container start and no save;
\* and an install of a name whose earlier install failed at a write or at
\* the container start, its install directory having been there since,
\* never creates the directory, attempts none of those calls, does not end
\* normally, and fails at the directory creation when it gets that far.
C17_DirectoryBlocksInstall ==
    \A p \in Procs :
        /\ (op[p] = "install" /\ <<"makedirs", "fail">> \in Calls(p))
           => /\ pc[p] = "idle"
              /\ result[p] = "Fatal"
              /\ PackagePath(name[p]) \in host0[p].fs
              /\ \A c \in AfterMakedirs : ~Attempted(p, c)
              /\ RegistryUnchanged(p)
        /\ (op[p] = "install" /\ name[p] \in installFailed)
           => /\ <<"makedirs", "ok">> \notin Calls(p)
              /\ \A c \in AfterMakedirs : ~Attempted(p, c)
              /\ result[p] # "OK"
              /\ RegistryUnchanged(p)
              /\ pc[p] \in {"idle", "pull", "schema", "makedirs"}
              /\ (pc[p] = "idle" /\ <<"json.loads", "ok">> \in Calls(p))
                   => <<"makedirs", "fail">> \in Calls(p)

\* an install failed at the container start, and the next install of the
\* same name got as far as the directory creation and failed there
C17_Witness ==
    \E p \in Procs :
        /\ Ended(p, "install")
        /\ name[p] \in installFailed
        /\ prev[p].op = "install"
        /\ prev[p].name = name[p]
        /\ prev[p].result = "ContainerStartFailed"
        /\ <<"makedirs", "fail">> \in Calls(p)
        /\ result[p] = "Fatal"

----------------------------------------------------------------------------
(* C18 *)

\* C18: an install that has run its pull fails there, with ImagePullFailed,
\* exactly when the runtime's pull itself failed, whatever the progress
\* records of the stream hold.
C18_ProgressIsCosmetic ==
    \A p \in Procs :
        (op[p] = "install" /\ Attempted(p, "pull"))
        => /\ <<"pull", "fail">> \in Calls(p) <=> ~pullOk[p]
           /\ (pc[p] = "idle" /\ result[p] = "ImagePullFailed") <=> ~pullOk[p]

----------------------------------------------------------------------------
(* C19 *)

\* C19, as claimed: a remove takes the install directory away only after
\* main.py, __init__.py, the entry point and the completion script have all
\* been deleted, and when it fails on a missing completion script the
\* install directory is still there.
C19_RmdirAfterAllDeletions ==
    \A p \in Procs :
        op[p] = "remove"
        => /\ <<"rmdir", "ok">> \in Calls(p)
                => \A c \in RemoveDeletions : <<c, "ok">> \in Calls(p)
           /\ <<"remove completion", "fail">> \in Calls(p)
                => PackagePath(name[p]) \in fs

\* C19, amended: a remove takes the install directory away after main.py,
\* __init__.py and the entry point have been deleted and before it deletes
\* the completion script; when it fails on a missing completion script it
\* ends with an uncaught exception and the install directory is gone.
C19_RmdirBeforeCompletion ==
    \A p \in Procs :
        op[p] = "remove"
        => /\ <<"rmdir", "ok">> \in Calls(p)
                => /\ \A c \in RemoveDeletions \ {"remove completion"} :
                        <<c, "ok">> \in Calls(p)
                   /\ trace[p][4] = <<"rmdir", "ok">>
           /\ Attempted(p, "remove completion")
                => /\ <<"rmdir", "ok">> \in Calls(p)
                   /\ trace[p][5][1] = "remove completion"
           /\ <<"remove completion", "fail">> \in Calls(p)
                => /\ pc[p] = "idle"
                   /\ result[p] = "Fatal"
                   /\ PackagePath(name[p]) \in host0[p].fs
                   /\ PackagePath(name[p]) \notin fs

\* a remove that failed on a missing completion script
C19_Witness ==
    \E p \in Procs :
        /\ Ended(p, "remove")
        /\ <<"remove completion", "fail">> \in Calls(p)
        /\ result[p] = "Fatal"
        /\ PackagePath(name[p]) \notin fs

----------------------------------------------------------------------------
(* C20 *)

\* the last two invocations of p: a successful install of a registered
\* service without a status field, then a successful remove of it
InstalledThenRemoved(p) ==
    /\ Ended(p, "remove")
    /\ result[p] = "OK"
    /\ prev[p] = [op |-> "install", name |-> name[p], result |-> "OK"]
    /\ name[p] \in DOMAIN host1[p].repoFile
    /\ ~HasStatus(host1[p].repoFile[name[p]])

\* files, directories and containers are those before the install, and the
\* registry is the one before the install with the status of the entry set
\* to "Not installed"
RoundTripButImages(p) ==
    /\ fs = host1[p].fs
    /\ containers = host1[p].containers
    /\ repoExists
    /\ DOMAIN repoFile = DOMAIN host1[p].repoFile
    /\ repoFile[name[p]] = SetStatus(host1[p].repoFile[name[p]], "Not installed")
    /\ \A m \in DOMAIN repoFile : m # name[p] => repoFile[m] = host1[p].repoFile[m]

\* an install that follows a successful remove of the same name passes the
\* checks of install
NextInstallPasses(p) ==
    (/\ op[p] = "install"
     /\ prev[p] = [op |-> "remove", name |-> name[p], result |-> "OK"])
    => result[p] \notin {"RegistryEmpty", "ServiceNotFound", "AlreadyInstalled"}

\* C20, as claimed: a successful install then a successful remove of a
\* registered service without a status leave files, directories, containers
\* and images as they were before the install, and the registry as it was
\* but for the status "Not installed"; a following install passes its checks.
C20_InstallRemoveRoundTrip ==
    \A p \in Procs :
        /\ InstalledThenRemoved(p)
           => RoundTripButImages(p) /\ images = host1[p].images
        /\ NextInstallPasses(p)

\* C20, amended: as above, but of the images the one of the service's repo
\* is absent whether or not it was there before the install, and the others
\* are as they were.
C20_RoundTripDropsImage ==
    \A p \in Procs :
        /\ InstalledThenRemoved(p)
           => /\ RoundTripButImages(p)
              /\ images = host1[p].images \ {host1[p].repoFile[name[p]].repo}
        /\ NextInstallPasses(p)

\* the image was there before the install, left by an earlier install that
\* failed after its pull
C20_Witness ==
    \E p \in Procs :
        /\ InstalledThenRemoved(p)
        /\ host1[p].repoFile[name[p]].repo \in host1[p].images
        /\ host1[p].repoFile[name[p]].repo \notin images

====
